---- MODULE Spec2Model ----
(***************************************************************************)
(* systemd-docker: a wrapper that asks the docker engine to run a          *)
(* container, moves the container's processes into the wrapper's own       *)
(* cgroups, tells systemd about the container's main pid, and then keeps   *)
(* the client alive until the container stops.                             *)
(*                                                                         *)
(* The wrapper is one sequential flow of control (variable pc), the log    *)
(* streaming goroutine a second one (variable logs).  The environment is   *)
(* the docker engine (containers), the process table (procs) with the      *)
(* cgroup membership of every live process, the notification socket       *)
(* (sock) and the pid file (pidfile).  Container processes exit on their   *)
(* own at any moment (action Exit).                                        *)
(***************************************************************************)
EXTENDS Integers, Sequences, FiniteSets, TLC

(***************************************************************************)
(* Bounds of the model.                                                    *)
(***************************************************************************)
MaxKids == 1          \* processes of a container beside its main process
MaxInvocations == 2   \* invocations of the wrapper in one behaviour

(***************************************************************************)
(* Program constants.                                                      *)
(***************************************************************************)
SYSFS == "/sys/fs/cgroup"
PROCS == "cgroup.procs"
SelfPid == 1          \* os.Getpid() of the wrapper
FirstPid == SelfPid + 1

NoErr == "nil"
ErrEngine == "engine error"
ErrExec == "exit status"
ErrPidIsZero == "Failed to launch container, pid is 0"
ErrPidLeZero == "Pid is <= 0 for container"
ErrExited == "Container exited before we could notify systemd"
ErrIO == "io error"

(***************************************************************************)
(* Text.  A decimal text is the sequence of its characters.                *)
(***************************************************************************)
Digit == <<"0", "1", "2", "3", "4", "5", "6", "7", "8", "9">>

RECURSIVE ItoaNat(_)
ItoaNat(n) == IF n < 10 THEN <<Digit[n + 1]>>
              ELSE ItoaNat(n \div 10) \o <<Digit[(n % 10) + 1]>>

\* strconv.Itoa and the %d verb
Itoa(n) == IF n < 0 THEN <<"-">> \o ItoaNat(0 - n) ELSE ItoaNat(n)

DigitVal(ch) == CHOOSE d \in 0..9 : Digit[d + 1] = ch
IsDigit(ch) == \E d \in 0..9 : Digit[d + 1] = ch

RECURSIVE AtoiNat(_)
AtoiNat(s) == IF Len(s) = 0 THEN 0
              ELSE 10 * AtoiNat(SubSeq(s, 1, Len(s) - 1)) + DigitVal(s[Len(s)])

\* strconv.Atoi: [ok, val]; ok is FALSE for anything that is no decimal integer
Atoi(s) ==
    LET neg == Len(s) > 0 /\ s[1] = "-"
        body == IF neg \/ (Len(s) > 0 /\ s[1] = "+") THEN Tail(s) ELSE s
    IN IF Len(body) = 0 \/ \E i \in 1..Len(body) : ~IsDigit(body[i])
       THEN [ok |-> FALSE, val |-> 0]
       ELSE [ok |-> TRUE, val |-> IF neg THEN 0 - AtoiNat(body) ELSE AtoiNat(body)]

\* the elements of a finite set of integers in ascending order
RECURSIVE SortedSeq(_)
SortedSeq(S) == IF S = {} THEN <<>>
                ELSE LET m == CHOOSE x \in S : \A y \in S : x <= y
                     IN <<m>> \o SortedSeq(S \ {m})

\* every sequence without repetition that enumerates the set S
RECURSIVE Perms(_)
Perms(S) == IF S = {} THEN {<<>>}
            ELSE UNION {{<<x>> \o p : p \in Perms(S \ {x})} : x \in S}

(***************************************************************************)
(* Cgroups.  A controller name as /proc/<pid>/cgroup prints it is a pair   *)
(* <<prefix, rest>>: <<"", "cpu">> is cpu, <<"name=", "systemd">> is       *)
(* name=systemd.  A hierarchy is mounted at SYSFS/<dir>.                   *)
(***************************************************************************)
CPU == <<"", "cpu">>
FREEZER == <<"", "freezer">>
SYSTEMD == <<"name=", "systemd">>
Hierarchies == {[id |-> "2", key |-> CPU, dir |-> "cpu"],
                [id |-> "1", key |-> SYSTEMD, dir |-> "systemd"]}
Dirs == {h.dir : h \in Hierarchies}
\* a group path is the sequence of its segments: <<>> is "/", <<"a">> is "/a"
Root == <<>>
NoPath == <<"-">>     \* the process is in no group of that hierarchy
DockerBase == <<"docker">>

\* the group the engine puts the processes of container id in
ContainerPath(base, id) == IF base = DockerBase THEN base \o Itoa(id) ELSE base


(***************************************************************************)
(* State.                                                                  *)
(***************************************************************************)
VARIABLES
    ctx,         \* the Context of the invocation
    pc,          \* where mainWithArgs is
    err,         \* the error mainWithArgs returns
    lk,          \* lookupNamedContainer: the container the inspect returned
    mv,          \* moveCgroups: its local variables
    logs,        \* the pipeLogs goroutine
    containers,  \* the engine: container id -> its record
    nextId,      \* the engine: the id the next created container gets
    nextPid,     \* the kernel: the pid the next created process gets
    procs,       \* the kernel: live pid -> its group path in each hierarchy
    layout,      \* the engine: the group path it starts containers in
    sock,        \* the messages the supervisor received on NOTIFY_SOCKET
    pidfile,     \* the contents of the pid file
    inv,         \* number of invocations so far
    h            \* history of the invocation, read by the properties only

vars == <<ctx, pc, err, lk, mv, logs, containers, nextId, nextPid, procs,
          layout, sock, pidfile, inv, h>>

NoId == 0             \* the empty container id, len(c.Id) == 0
NoFile == <<>>        \* a file that was never written

Kids(main) == {main + k : k \in 1..MaxKids}

\* client.InspectContainer(name): the ids of the containers of that name
Named(name) == {id \in DOMAIN containers : containers[id].name = name}

\* a command the wrapper sends to the engine (id is NoId for a lookup by name)
Cmd(name, id) == [op |-> name, id |-> id]

MvInit == [currentCgroups |-> <<>>, containerCgroups |-> <<>>, ns |-> <<>>,
           i |-> 1, pids |-> <<>>, j |-> 1, moved |-> FALSE, ret |-> FALSE]

HInit == [ops |-> <<>>, lookup |-> "", seen |-> NoId, seenPid |-> 0,
          seenCfg |-> "", launchPid |-> 0, run |-> "", exited |-> {},
          resolved |-> {},
          snap |-> FALSE, skipped |-> {}, listed |-> {}, lists |-> {},
          writes |-> {}, deadAtCheck |-> {}, mvDone |-> FALSE,
          ntCalled |-> FALSE, ntEntryDead |-> FALSE, ntRecheckDead |-> FALSE,
          sent |-> <<>>, nt |-> "", poll |-> "none",
          ntAlive |-> 0, readyDead |-> FALSE, dialed |-> FALSE,
          steps |-> <<>>, afterErr |-> FALSE, mvPid |-> 0, afterFail |-> 0,
          dials |-> 0, rewrites |-> 0, reads |-> <<>>, procChecked |-> FALSE,
          resFail |-> "", pfFailed |-> FALSE, pfProcs |-> <<>>, pfSock |-> <<>>,
          rms |-> <<>>]

\* the values parseContext and setupEnvironment can leave in the Context
Contexts ==
    {[Name |-> n, Rm |-> rm, Logs |-> lg, Notify |-> nf, NotifySocket |-> ns,
      PidFile |-> pf, Detach |-> d, AllCgroups |-> cs[1], Cgroups |-> cs[2],
      Args |-> "new", Id |-> NoId, Pid |-> 0] :
        n \in {"", "web"}, rm \in BOOLEAN, lg \in BOOLEAN,
        nf \in BOOLEAN, ns \in {"", "/run/systemd/notify"},
        pf \in {"", "/run/web.pid"}, d \in BOOLEAN,
        cs \in {<<TRUE, <<>>>>, <<FALSE, <<>>>>, <<FALSE, <<CPU>>>>}}

\* setupEnvironment: Notify stays set only with a socket
ParsedContexts == {c \in Contexts : c.Notify => c.NotifySocket # ""}

\* the processes of container id, started with main process main
Spawned(id, main) ==
    [p \in {main} \cup Kids(main) |-> [d \in Dirs |-> ContainerPath(layout[d], id)]]

\* f and g together (their domains are disjoint)
Merge(f, g) == [x \in DOMAIN f \cup DOMAIN g |-> IF x \in DOMAIN f THEN f[x] ELSE g[x]]

\* f without the arguments in S
Without(f, S) == [x \in DOMAIN f \ S |-> f[x]]

\* the running container whose main process is p, if any
MainOf(p) == {id \in DOMAIN containers :
                 containers[id].running /\ containers[id].pid = p}


(***************************************************************************)
(* The initial states: the Context parseContext built, and an engine that  *)
(* has no container, or one container of the name that is running or       *)
(* stopped.  State.Pid is whatever integer the engine reports.             *)
(***************************************************************************)
SelfCg == [d \in Dirs |-> <<"a">>]
Old(running, pid) == [name |-> "web", running |-> running, pid |-> pid, cfg |-> "old"]

Engines ==
    {[containers |-> <<>>, mains |-> {}],
     [containers |-> <<Old(TRUE, FirstPid)>>, mains |-> {FirstPid}],
     [containers |-> <<Old(TRUE, -1)>>, mains |-> {}],
     [containers |-> <<Old(FALSE, 0)>>, mains |-> {}]}

InitWith(c, e, selfCg, lay) ==
    /\ ctx = c
    /\ err = NoErr
    /\ lk = NoId
    /\ mv = MvInit
    /\ logs = "idle"
    /\ containers = e.containers
    /\ nextId = Len(e.containers) + 1
    /\ nextPid = FirstPid + Cardinality(e.mains) * (1 + MaxKids)
    /\ layout = lay
    /\ procs = [p \in {SelfPid} \cup e.mains \cup UNION {Kids(m) : m \in e.mains} |->
                   IF p = SelfPid THEN selfCg
                   ELSE [d \in Dirs |-> ContainerPath(lay[d], 1)]]
    /\ sock = <<>>
    /\ pidfile = NoFile
    /\ inv = 1

Init ==
    \E c \in ParsedContexts, e \in Engines :
        /\ c.Name = "" => e.containers = <<>>
        /\ InitWith(c, e, SelfCg, [d \in Dirs |-> DockerBase])
        /\ pc = "run"
        /\ h = HInit

(***************************************************************************)
(* The initial states of a migration on its own, as TestMoveCgroup runs    *)
(* it: runContainer has launched container 1, whose processes are in the   *)
(* groups the engine was told to use; the wrapper is in any groups.        *)
(***************************************************************************)
Selections == {<<TRUE, <<>>>>, <<FALSE, <<>>>>, <<FALSE, <<CPU>>>>,
               <<FALSE, <<SYSTEMD, FREEZER>>>>, <<FALSE, <<CPU, SYSTEMD>>>>,
               <<FALSE, <<CPU, CPU>>>>}

Launched == [name |-> "", running |-> TRUE, pid |-> FirstPid, cfg |-> "new"]

InitMig ==
    \E cs \in Selections,
       selfCg \in [Dirs -> {NoPath, Root, <<"a">>}],
       lay \in [Dirs -> {NoPath, Root, <<"a">>, DockerBase}] :
        /\ InitWith([Name |-> "", Rm |-> FALSE, Logs |-> FALSE, Notify |-> FALSE,
                     NotifySocket |-> "", PidFile |-> "", Detach |-> TRUE,
                     AllCgroups |-> cs[1], Cgroups |-> cs[2], Args |-> "new",
                     Id |-> 1, Pid |-> FirstPid],
                    [containers |-> <<Launched>>, mains |-> {FirstPid}],
                    selfCg, lay)
        /\ pc = "move"
        /\ h = [HInit EXCEPT !.ops = <<Cmd("run", 1), Cmd("inspect", 1)>>,
                             !.launchPid = FirstPid, !.run = "ok",
                             !.resolved = {1}, !.steps = <<"resolve">>]

(***************************************************************************)
(* The initial states of a named unit that is started again and again,     *)
(* without a notification socket and without a pid file.                   *)
(***************************************************************************)
InitRepeat ==
    \E c \in ParsedContexts, e \in Engines :
        /\ c.Name # "" /\ c.Logs
        /\ c.NotifySocket = "" /\ c.PidFile = "" /\ ~c.AllCgroups /\ c.Cgroups = <<>>
        /\ InitWith(c, e, SelfCg, [d \in Dirs |-> DockerBase])
        /\ pc = "run"
        /\ h = HInit

(***************************************************************************)
(* The engine's commands.                                                  *)
(***************************************************************************)
\* docker run / docker start: the container runs, its processes exist
EngineRuns(id, name, cfg) ==
    /\ containers' = [x \in DOMAIN containers \cup {id} |->
                         IF x = id THEN [name |-> name, running |-> TRUE,
                                         pid |-> nextPid, cfg |-> cfg]
                         ELSE containers[x]]
    /\ procs' = Merge(procs, Spawned(id, nextPid))
    /\ nextPid' = nextPid + 1 + MaxKids

\* docker rm -f
EngineRemoves(id) ==
    /\ containers' = Without(containers, {id})
    /\ procs' = IF id \in DOMAIN containers /\ containers[id].running
                THEN Without(procs, {containers[id].pid} \cup Kids(containers[id].pid))
                ELSE procs

Op(name, id) == h' = [h EXCEPT !.ops = Append(@, Cmd(name, id))]

Return(e) == pc' = "exit" /\ err' = e

\* mainWithArgs calls the step of that name: hh with the call recorded
Enter(hh, step) ==
    [hh EXCEPT !.steps = IF \E k \in 1..Len(@) : @[k] = step THEN @ ELSE Append(@, step),
               !.afterErr = @ \/ err # NoErr]

(***************************************************************************)
(* runContainer                                                            *)
(***************************************************************************)
\* InspectResult that takes the NoSuchContainer answer for a failure
InspectResultStrict(ok, found) ==
    IF ~ok \/ found = {} THEN "error" ELSE "found"

\* InspectResult that takes every failed inspect for a missing container
InspectResultLenient(ok, found) ==
    IF ~ok \/ found = {} THEN "nosuch" ELSE "found"

\* lookupNamedContainer: what it makes of the answer to InspectContainer
InspectResult(ok, found) ==
    IF ok /\ found = {} THEN "nosuch"
    ELSE IF ~ok THEN "error"
    ELSE "found"

\* LookupBranch that looks at --rm before it looks at the running state
LookupBranchRmFirst(running, rm) ==
    IF rm THEN "recreate"
    ELSE IF running THEN "reattach"
    ELSE "restart"

\* LookupBranch that forgets --rm
LookupBranchNoRm(running, rm) ==
    IF running THEN "reattach" ELSE "restart"

\* LookupBranch that replaces every stopped container
LookupBranchRecreates(running, rm) ==
    IF running THEN "reattach" ELSE "recreate"

\* lookupNamedContainer: the branch on the state of the container it found
LookupBranch(running, rm) ==
    IF running THEN "reattach"
    ELSE IF rm THEN "recreate"
    ELSE "restart"

\* lookupNamedContainer up to the branch on the inspected state
LookupInspect ==
    /\ pc = "run"
    /\ ctx.Name # ""
    /\ \E ok \in BOOLEAN :
        LET found == Named(ctx.Name)
            id == CHOOSE x \in found : TRUE
            res == InspectResult(ok, found)
            branch == LookupBranch(containers[id].running, ctx.Rm)
            hh == [Enter(h, "resolve") EXCEPT
                            !.ops = Append(@, Cmd("inspect", NoId)),
                            !.resFail = IF ~ok THEN "inspect" ELSE @,
                            !.lookup = IF ~ok THEN "failed"
                                       ELSE IF found = {} THEN "absent"
                                       ELSE IF containers[id].running THEN "running"
                                       ELSE "stopped"]
        IN IF res = "error"
           THEN /\ Return(ErrEngine)
                /\ h' = hh
                /\ UNCHANGED <<ctx, lk>>
           ELSE IF res = "nosuch"
           THEN /\ pc' = "launch"
                /\ h' = hh
                /\ UNCHANGED <<ctx, lk, err>>
           ELSE /\ h' = [hh EXCEPT !.seen = id, !.seenPid = containers[id].pid,
                                   !.seenCfg = containers[id].cfg]
                /\ IF branch = "reattach"
                   THEN /\ ctx' = [ctx EXCEPT !.Id = id, !.Pid = containers[id].pid]
                        /\ pc' = "runcheck"
                        /\ UNCHANGED lk
                   ELSE /\ lk' = id
                        /\ pc' = IF branch = "recreate" THEN "lk_rm" ELSE "lk_start"
                        /\ UNCHANGED ctx
                /\ UNCHANGED err
    /\ UNCHANGED <<mv, logs, containers, nextId, nextPid, procs, layout, sock,
                   pidfile, inv>>

\* lookupNamedContainer, the container is stopped and --rm: RemoveContainer
LookupRemove ==
    /\ pc = "lk_rm"
    /\ \E ok \in BOOLEAN :
        /\ h' = [h EXCEPT !.ops = Append(@, Cmd("rm", lk)),
                          !.rms = Append(@, "resolve"),
                          !.resFail = IF ok /\ lk \in DOMAIN containers THEN @ ELSE "rm"]
        /\ IF ok /\ lk \in DOMAIN containers
           THEN /\ EngineRemoves(lk)
                /\ pc' = "launch"
                /\ UNCHANGED err
           ELSE /\ Return(ErrEngine)
                /\ UNCHANGED <<containers, procs>>
    /\ lk' = NoId
    /\ UNCHANGED <<ctx, mv, logs, nextId, nextPid, layout, sock, pidfile, inv>>

\* lookupNamedContainer, the container is stopped and no --rm: StartContainer
LookupStart ==
    /\ pc = "lk_start"
    /\ \E ok \in BOOLEAN :
        /\ h' = [h EXCEPT !.ops = Append(@, Cmd("start", lk)),
                          !.resFail = IF ok /\ lk \in DOMAIN containers THEN @ ELSE "start"]
        /\ IF ok /\ lk \in DOMAIN containers
           THEN /\ EngineRuns(lk, containers[lk].name, containers[lk].cfg)
                /\ pc' = "lk_inspect"
                /\ UNCHANGED err
           ELSE /\ Return(ErrEngine)
                /\ UNCHANGED <<containers, procs, nextPid>>
    /\ lk' = NoId
    /\ UNCHANGED <<ctx, mv, logs, nextId, layout, sock, pidfile, inv>>

\* lookupNamedContainer, after the start: the second InspectContainer
LookupReinspect ==
    /\ pc = "lk_inspect"
    /\ \E ok \in BOOLEAN :
        LET found == Named(ctx.Name)
            id == CHOOSE x \in found : TRUE
        IN /\ h' = [h EXCEPT !.ops = Append(@, Cmd("inspect", NoId)),
                             !.resFail = IF ok /\ found # {} THEN @ ELSE "reinspect"]
           /\ IF ok /\ found # {}
              THEN /\ ctx' = [ctx EXCEPT !.Id = id, !.Pid = containers[id].pid]
                   /\ pc' = "runcheck"
                   /\ UNCHANGED err
              ELSE /\ Return(ErrEngine)
                   /\ UNCHANGED ctx
    /\ UNCHANGED <<lk, mv, logs, containers, nextId, nextPid, procs, layout, sock,
                   pidfile, inv>>

\* LaunchContainer that issues docker run a second time when the first fails
LaunchContainerRetries ==
    /\ \/ pc = "run" /\ ctx.Name = ""
       \/ pc = "launch"
    /\ \E ok \in BOOLEAN :
        /\ h' = [Enter(h, "resolve") EXCEPT
                    !.ops = Append(@, Cmd("run", IF ok THEN nextId ELSE NoId)),
                    !.resFail = IF ok THEN @ ELSE "run"]
        /\ IF ok
           THEN /\ EngineRuns(nextId, ctx.Name, ctx.Args)
                /\ nextId' = nextId + 1
                /\ ctx' = [ctx EXCEPT !.Id = nextId]
                /\ pc' = "getpid"
                /\ UNCHANGED err
           ELSE /\ IF \E k \in 1..Len(h.ops) : h.ops[k].op = "run"
                   THEN Return(ErrExec)
                   ELSE pc' = "launch" /\ UNCHANGED err
                /\ UNCHANGED <<ctx, containers, procs, nextPid, nextId>>
    /\ UNCHANGED <<lk, mv, logs, layout, sock, pidfile, inv>>

\* launchContainer up to Cmd.Wait: docker run -d prints the new id
LaunchContainer ==
    /\ \/ pc = "run" /\ ctx.Name = ""
       \/ pc = "launch"
    /\ \E ok \in BOOLEAN :
        /\ h' = [Enter(h, "resolve") EXCEPT
                    !.ops = Append(@, Cmd("run", IF ok THEN nextId ELSE NoId)),
                    !.resFail = IF ok THEN @ ELSE "run"]
        /\ IF ok
           THEN /\ EngineRuns(nextId, ctx.Name, ctx.Args)
                /\ nextId' = nextId + 1
                /\ ctx' = [ctx EXCEPT !.Id = nextId]
                /\ pc' = "getpid"
                /\ UNCHANGED err
           ELSE /\ Return(ErrExec)
                /\ UNCHANGED <<ctx, containers, procs, nextPid, nextId>>
    /\ UNCHANGED <<lk, mv, logs, layout, sock, pidfile, inv>>

\* getContainerPid: [pid, err]
getContainerPid(ok) ==
    IF ~ok \/ ctx.Id \notin DOMAIN containers
    THEN [pid |-> 0, err |-> ErrEngine]
    ELSE IF containers[ctx.Id].pid <= 0
    THEN [pid |-> 0, err |-> ErrPidLeZero]
    ELSE [pid |-> containers[ctx.Id].pid, err |-> NoErr]

\* launchContainer, its last statement: c.Pid, err = getContainerPid(c)
LaunchGetPid ==
    /\ pc = "getpid"
    /\ \E ok \in BOOLEAN :
        LET r == getContainerPid(ok)
        IN /\ h' = [h EXCEPT !.ops = Append(@, Cmd("inspect", ctx.Id)),
                             !.launchPid = IF ok /\ ctx.Id \in DOMAIN containers
                                           THEN containers[ctx.Id].pid ELSE 0]
           /\ ctx' = [ctx EXCEPT !.Pid = r.pid]
           /\ IF r.err = NoErr
              THEN pc' = "runcheck" /\ UNCHANGED err
              ELSE Return(r.err)
    /\ UNCHANGED <<lk, mv, logs, containers, nextId, nextPid, procs, layout, sock,
                   pidfile, inv>>

\* runContainer, its last statements: the test of c.Pid
PidIsUsable(pid) == pid # 0

RunCheck ==
    /\ pc = "runcheck"
    /\ IF PidIsUsable(ctx.Pid)
       THEN /\ pc' = "move"
            /\ h' = [h EXCEPT !.run = "ok", !.resolved = @ \cup {ctx.Id}]
            /\ UNCHANGED err
       ELSE /\ Return(ErrPidIsZero)
            /\ UNCHANGED h
    /\ UNCHANGED <<ctx, lk, mv, logs, containers, nextId, nextPid, procs, layout,
                   sock, pidfile, inv>>

(***************************************************************************)
(* The environment: a process of a container exits.  When the main         *)
(* process exits the container stops and the kernel kills the rest of it.  *)
(***************************************************************************)
Exit(p) ==
    /\ p \in DOMAIN procs \ {SelfPid}
    /\ IF MainOf(p) # {}
       THEN /\ containers' = [id \in DOMAIN containers |->
                                 IF id \in MainOf(p)
                                 THEN [containers[id] EXCEPT !.running = FALSE, !.pid = 0]
                                 ELSE containers[id]]
            /\ procs' = Without(procs, {p} \cup Kids(p))
            /\ h' = [h EXCEPT !.exited = @ \cup MainOf(p)]
       ELSE /\ procs' = Without(procs, {p})
            /\ UNCHANGED <<containers, h>>
    /\ UNCHANGED <<ctx, pc, err, lk, mv, logs, nextId, nextPid, layout, sock,
                   pidfile, inv>>

(***************************************************************************)
(* The cgroup file system as the kernel presents it.                       *)
(***************************************************************************)
\* /proc/<pid>/cgroup: one line id:controller:path for each hierarchy
ProcCgroupLines(pid) ==
    {<<x.id, x.key, procs[pid][x.dir]>> : x \in {y \in Hierarchies : procs[pid][y.dir] # NoPath}}

\* the group directory exists: the engine removes a container's group when
\* the container stops
GroupExists(dir, path) ==
    /\ dir \in Dirs
    /\ path # NoPath
    /\ \/ Len(path) = 0
       \/ path[1] # DockerBase[1]
       \/ \E id \in DOMAIN containers :
              containers[id].running /\ path = ContainerPath(DockerBase, id)

\* the lines of a cgroup.procs file: the pids of the group, ascending
ProcsFileLines(dir, path) ==
    LET members == {p \in DOMAIN procs : procs[p][dir] = path}
        sorted == SortedSeq(members)
    IN [k \in 1..Len(sorted) |-> Itoa(sorted[k])]

(***************************************************************************)
(* moveCgroups                                                             *)
(***************************************************************************)
\* getCgroupsForPid: [err, m], m the map controller -> path of the lines
getCgroupsForPid(pid) ==
    IF pid \notin DOMAIN procs
    THEN [err |-> ErrIO, m |-> <<>>]
    ELSE LET lines == ProcCgroupLines(pid)
         IN [err |-> NoErr,
             m |-> [k \in {l[2] : l \in lines} |->
                       (CHOOSE l \in lines : l[2] = k)[3]]]

\* strings.TrimPrefix(cgroupName, "name=")
TrimPrefix(cgroupName) ==
    IF cgroupName[1] = "name=" THEN <<"", cgroupName[2]>> ELSE cgroupName

\* constructCgroupPath: path.Join(SYSFS, <name without name=>, cgroupPath, PROCS)
constructCgroupPath(cgroupName, cgroupPath) ==
    <<SYSFS, TrimPrefix(cgroupName)[1] \o TrimPrefix(cgroupName)[2], cgroupPath, PROCS>>

\* getCgroupPids: [err, pids]
getCgroupPids(cgroupName, cgroupPath) ==
    LET file == constructCgroupPath(cgroupName, cgroupPath)
    IN IF GroupExists(file[2], file[3])
       THEN [err |-> NoErr, pids |-> ProcsFileLines(file[2], file[3])]
       ELSE [err |-> ErrIO, pids |-> <<>>]

\* pidDied: /proc/<pid> does not exist
pidDied(pid) == pid \notin DOMAIN procs

\* Selected that takes every controller of the target whatever c.Cgroups is
SelectedAlwaysAll(c, containerCgroups) == Perms(DOMAIN containerCgroups)

\* the controllers moveCgroups goes through, in the orders it may take them:
\* the keys of a Go map come in any order
Selected(c, containerCgroups) ==
    IF c.AllCgroups \/ Len(c.Cgroups) = 0
    THEN Perms(DOMAIN containerCgroups)
    ELSE {c.Cgroups}

\* Migrates that reads the target's membership again
MigratesRereads(currentCgroups, containerCgroups, nsName) ==
    LET now == getCgroupsForPid(ctx.Pid).m
    IN /\ nsName \in DOMAIN currentCgroups
       /\ nsName \in DOMAIN now
       /\ currentCgroups[nsName] # now[nsName]
       /\ now[nsName] # Root

\* Migrates without the test for the hierarchy root
MigratesRootToo(currentCgroups, containerCgroups, nsName) ==
    /\ nsName \in DOMAIN currentCgroups
    /\ nsName \in DOMAIN containerCgroups
    /\ currentCgroups[nsName] # containerCgroups[nsName]

\* the tests that let moveCgroups go on to list the controller nsName
Migrates(currentCgroups, containerCgroups, nsName) ==
    /\ nsName \in DOMAIN currentCgroups
    /\ nsName \in DOMAIN containerCgroups
    /\ currentCgroups[nsName] # containerCgroups[nsName]
    /\ containerCgroups[nsName] # Root

\* WriteTarget with the two paths mixed up
WriteTargetOfContainer(currentCgroups, containerCgroups, nsName) ==
    constructCgroupPath(nsName, containerCgroups[nsName])

\* WriteTarget that keeps the name= prefix in the directory of the controller
WriteTargetUntrimmed(currentCgroups, containerCgroups, nsName) ==
    <<SYSFS, nsName[1] \o nsName[2], currentCgroups[nsName], PROCS>>

\* the file moveCgroups writes the pids of controller nsName to
WriteTarget(currentCgroups, containerCgroups, nsName) ==
    constructCgroupPath(nsName, currentCgroups[nsName])

\* MoveReturns for a mainWithArgs that drops the error of moveCgroups
MoveReturnsIgnoresError(moved, e) ==
    /\ mv' = [mv EXCEPT !.ret = moved]
    /\ err' = e
    /\ pc' = "notify"

\* MoveReturns for a moveCgroups that never sets moved
MoveReturnsNeverMoved(moved, e) ==
    /\ mv' = [mv EXCEPT !.ret = FALSE]
    /\ err' = e
    /\ pc' = IF e = NoErr THEN "notify" ELSE "exit"

\* moveCgroups returns
MoveReturns(moved, e) ==
    /\ mv' = [mv EXCEPT !.ret = moved]
    /\ err' = e
    /\ pc' = IF e = NoErr THEN "notify" ELSE "exit"

\* the two getCgroupsForPid calls and the choice of the controllers
MoveSnapshot ==
    /\ pc = "move"
    /\ LET cur == getCgroupsForPid(SelfPid)
           tgt == getCgroupsForPid(ctx.Pid)
       IN IF cur.err # NoErr
          THEN /\ pc' = "exit" /\ err' = cur.err
               /\ h' = [Enter(h, "migrate") EXCEPT !.mvDone = TRUE,
                                                   !.reads = @ \o <<SelfPid>>]
               /\ UNCHANGED mv
          ELSE IF tgt.err # NoErr
          THEN /\ pc' = "exit" /\ err' = tgt.err
               /\ h' = [Enter(h, "migrate") EXCEPT !.mvDone = TRUE,
                                                   !.reads = @ \o <<SelfPid, ctx.Pid>>]
               /\ UNCHANGED mv
          ELSE /\ \E ns \in Selected(ctx, tgt.m) :
                     mv' = [MvInit EXCEPT !.currentCgroups = cur.m,
                                          !.containerCgroups = tgt.m, !.ns = ns]
               /\ pc' = "mv_ctrl"
               /\ h' = [Enter(h, "migrate") EXCEPT !.snap = TRUE, !.mvPid = ctx.Pid,
                                                   !.reads = @ \o <<SelfPid, ctx.Pid>>]
               /\ UNCHANGED err
    /\ UNCHANGED <<ctx, lk, logs, containers, nextId, nextPid, procs, layout, sock,
                   pidfile, inv>>

\* the head of the loop over the controllers, up to getCgroupPids
MoveController ==
    /\ pc = "mv_ctrl"
    /\ IF mv.i > Len(mv.ns)
       THEN /\ MoveReturns(mv.moved, NoErr)
            /\ h' = [h EXCEPT !.mvDone = TRUE]
       ELSE LET nsName == mv.ns[mv.i]
            IN IF ~Migrates(mv.currentCgroups, mv.containerCgroups, nsName)
               THEN /\ mv' = [mv EXCEPT !.i = @ + 1]
                    /\ h' = [h EXCEPT !.skipped = @ \cup {nsName}]
                    /\ UNCHANGED <<pc, err>>
               ELSE LET r == getCgroupPids(nsName, mv.containerCgroups[nsName])
                    IN IF r.err # NoErr
                       THEN /\ MoveReturns(FALSE, r.err)
                            /\ h' = [h EXCEPT !.mvDone = TRUE,
                                              !.listed = @ \cup {nsName}]
                       ELSE /\ mv' = [mv EXCEPT !.pids = r.pids, !.j = 1]
                            /\ pc' = "mv_pid"
                            /\ h' = [h EXCEPT
                                       !.listed = @ \cup {nsName},
                                       !.lists = @ \cup {<<nsName, r.pids[k]>> :
                                                           k \in 1..Len(r.pids)}]
                            /\ UNCHANGED err
    /\ UNCHANGED <<ctx, lk, logs, containers, nextId, nextPid, procs, layout, sock,
                   pidfile, inv>>

\* the head of the loop over the listed pids, up to pidDied
MovePid ==
    /\ pc = "mv_pid"
    /\ IF mv.j > Len(mv.pids)
       THEN /\ mv' = [mv EXCEPT !.i = @ + 1, !.pids = <<>>, !.j = 1]
            /\ pc' = "mv_ctrl"
            /\ UNCHANGED h
       ELSE LET pidInt == Atoi(mv.pids[mv.j])
            IN IF ~pidInt.ok
               THEN /\ mv' = [mv EXCEPT !.j = @ + 1]
                    /\ UNCHANGED <<pc, h>>
               ELSE IF pidDied(pidInt.val)
               THEN /\ mv' = [mv EXCEPT !.j = @ + 1]
                    /\ h' = [h EXCEPT !.deadAtCheck = @ \cup {pidInt.val}]
                    /\ UNCHANGED pc
               ELSE /\ pc' = "mv_write"
                    /\ UNCHANGED <<mv, h>>
    /\ UNCHANGED <<ctx, err, lk, logs, containers, nextId, nextPid, procs, layout,
                   sock, pidfile, inv>>

\* AfterWrite that goes on with the next pid whatever writePid returned
AfterWriteIgnoresError(ok) == "next"

\* what moveCgroups does with the result of writePid: "next" or "abort"
AfterWrite(ok) == IF ok THEN "next" ELSE "abort"

\* writePid: the kernel moves the process whose pid is written to the file,
\* and fails the write (ESRCH) when there is no such process
MoveWrite ==
    /\ pc = "mv_write"
    /\ LET nsName == mv.ns[mv.i]
           pid == mv.pids[mv.j]
           file == WriteTarget(mv.currentCgroups, mv.containerCgroups, nsName)
           parsed == Atoi(pid)
           ok == /\ parsed.ok
                 /\ parsed.val \in DOMAIN procs
                 /\ GroupExists(file[2], file[3])
       IN /\ h' = [h EXCEPT !.writes = @ \cup {[ctl |-> nsName, pid |-> pid,
                                                file |-> file, ok |-> ok]},
                             !.afterFail = IF \E w \in h.writes : ~w.ok
                                           THEN @ + 1 ELSE @,
                             !.rewrites = IF \E w \in h.writes :
                                                w.ctl = nsName /\ w.pid = pid
                                          THEN @ + 1 ELSE @,
                             !.mvDone = AfterWrite(ok) = "abort"]
          /\ procs' = IF ok THEN [procs EXCEPT ![parsed.val][file[2]] = file[3]]
                      ELSE procs
          /\ IF AfterWrite(ok) = "next"
             THEN /\ mv' = [mv EXCEPT !.moved = TRUE, !.j = @ + 1]
                  /\ pc' = "mv_pid"
                  /\ UNCHANGED err
             ELSE MoveReturns(FALSE, ErrIO)
    /\ UNCHANGED <<ctx, lk, logs, containers, nextId, nextPid, layout, sock,
                   pidfile, inv>>

(***************************************************************************)
(* notify                                                                  *)
(***************************************************************************)
\* fmt.Sprintf("MAINPID=%d", pid) and "READY=1"
MainPidMsg(pid) == <<"MAINPID=">> \o Itoa(pid)
ReadyMsg == <<"READY=", "1">>

\* conn.Write: the supervisor receives the datagram when the write succeeds;
\* ret is what notify returns right after the write, "" when it goes on
Write(msg, ok, hh, ret) ==
    /\ sock' = IF ok THEN Append(sock, msg) ELSE sock
    /\ h' = [hh EXCEPT !.sent = Append(@, [msg |-> msg, ok |-> ok]), !.nt = ret]

\* NotifyPrecheck that looks at the socket first
NotifyPrecheckSocketFirst(died, socket) ==
    IF socket = "" THEN "nothing"
    ELSE IF died THEN "exited"
    ELSE "dial"

\* NotifyPrecheck that opens the socket whatever c.NotifySocket is
NotifyPrecheckAlwaysDials(died, socket) ==
    IF died THEN "exited" ELSE "dial"

\* what notify does before it opens the socket: "exited", "nothing" or "dial"
NotifyPrecheck(died, socket) ==
    IF died THEN "exited"
    ELSE IF socket = "" THEN "nothing"
    ELSE "dial"

\* notify up to net.Dial
NotifyCheck ==
    /\ pc = "notify"
    /\ LET todo == NotifyPrecheck(pidDied(ctx.Pid), ctx.NotifySocket)
       IN /\ h' = [Enter(h, "notify") EXCEPT
                            !.ntEntryDead = ctx.Pid \notin DOMAIN procs,
                            !.ntAlive = IF ctx.Pid \in DOMAIN procs THEN @ + 1 ELSE @,
                            !.ntCalled = TRUE,
                            !.procChecked = TRUE,
                            !.nt = IF todo = "exited" THEN "failed"
                                   ELSE IF todo = "nothing" THEN "nil" ELSE ""]
          /\ IF todo = "exited" THEN Return(ErrExited)
             ELSE IF todo = "nothing" THEN pc' = "pidfile" /\ UNCHANGED err
             ELSE pc' = "nt_mainpid" /\ UNCHANGED err
    /\ UNCHANGED <<ctx, lk, mv, logs, containers, nextId, nextPid, procs, layout,
                   sock, pidfile, inv>>

\* net.Dial and the write of MAINPID=<c.Pid>
NotifyMainPid ==
    /\ pc = "nt_mainpid"
    /\ \E dialed \in BOOLEAN, ok \in BOOLEAN :
        IF ~dialed
        THEN /\ ok
             /\ Return(ErrIO)
             /\ h' = [h EXCEPT !.nt = "failed", !.dials = @ + 1]
             /\ UNCHANGED sock
        ELSE /\ Write(MainPidMsg(ctx.Pid), ok,
                      [h EXCEPT !.dialed = TRUE, !.dials = @ + 1],
                      IF ok THEN "" ELSE "failed")
             /\ IF ok THEN pc' = "nt_recheck" /\ UNCHANGED err
                ELSE Return(ErrIO)
    /\ UNCHANGED <<ctx, lk, mv, logs, containers, nextId, nextPid, procs, layout,
                   pidfile, inv>>

\* NotifyAfterMainPid without the second pidDied
NotifyAfterMainPidNoRecheck(died, delegated) ==
    IF ~delegated THEN "ready" ELSE "return"

\* NotifyAfterMainPid that writes READY=1 with --notify too
NotifyAfterMainPidAlwaysReady(died, delegated) ==
    IF died THEN "correct" ELSE "ready"

\* what notify does after MAINPID=<c.Pid> is written: "correct", "ready" or "return"
NotifyAfterMainPid(died, delegated) ==
    IF died THEN "correct"
    ELSE IF ~delegated THEN "ready"
    ELSE "return"

\* the second pidDied, and the correction MAINPID=<own pid> when it is true
NotifyRecheck ==
    /\ pc = "nt_recheck"
    /\ LET todo == NotifyAfterMainPid(pidDied(ctx.Pid), ctx.Notify)
           hh == [h EXCEPT !.ntRecheckDead = ctx.Pid \notin DOMAIN procs,
                           !.ntAlive = IF ctx.Pid \in DOMAIN procs THEN @ + 1 ELSE @]
       IN IF todo = "correct"
          THEN /\ \E ok \in BOOLEAN : Write(MainPidMsg(SelfPid), ok, hh, "failed")
               /\ Return(ErrExited)
          ELSE /\ pc' = IF todo = "ready" THEN "nt_ready" ELSE "pidfile"
               /\ h' = [hh EXCEPT !.nt = IF todo = "ready" THEN "" ELSE "nil"]
               /\ UNCHANGED <<sock, err>>
    /\ UNCHANGED <<ctx, lk, mv, logs, containers, nextId, nextPid, procs, layout,
                   pidfile, inv>>

\* the write of READY=1
NotifyReady ==
    /\ pc = "nt_ready"
    /\ \E ok \in BOOLEAN :
        /\ Write(ReadyMsg, ok,
                 [h EXCEPT !.readyDead = @ \/ ctx.Pid \notin DOMAIN procs],
                 IF ok THEN "nil" ELSE "failed")
        /\ IF ok THEN pc' = "pidfile" /\ UNCHANGED err
           ELSE Return(ErrIO)
    /\ UNCHANGED <<ctx, lk, mv, logs, containers, nextId, nextPid, procs, layout,
                   pidfile, inv>>

(***************************************************************************)
(* pidFile, pipeLogs, keepAlive, rmContainer                               *)
(***************************************************************************)
\* PidFileContents that takes the pid of the wrapper
PidFileContentsOwnPid(c) == Itoa(SelfPid)

\* pidFile: the bytes it writes, []byte(strconv.Itoa(c.Pid))
PidFileContents(c) == Itoa(c.Pid)

\* AfterPidFile for a mainWithArgs that drops the error of pidFile
AfterPidFileIgnoresError(c, ok) == IF c.Detach THEN "return" ELSE "attach"

\* mainWithArgs after pidFile: "fail" on its error, else the branch on
\* c.Detach: "return", or "attach" for pipeLogs, keepAlive and rmContainer
AfterPidFile(c, ok) ==
    IF ~ok THEN "fail"
    ELSE IF c.Detach THEN "return"
    ELSE "attach"

\* pidFile, and the branch on c.Detach that follows it in mainWithArgs
PidFile ==
    /\ pc = "pidfile"
    /\ \E ok \in BOOLEAN :
        LET writes == ctx.PidFile # "" /\ ctx.Pid > 0
            failed == writes /\ ~ok
            todo == AfterPidFile(ctx, ok)
        IN /\ ~writes => ok
           /\ h' = [Enter(h, "pidfile") EXCEPT
                       !.pfFailed = failed,
                       !.pfProcs = IF failed THEN procs ELSE @,
                       !.pfSock = IF failed THEN sock ELSE @]
           /\ pidfile' = IF writes /\ ok THEN PidFileContents(ctx) ELSE pidfile
           /\ IF todo = "fail"
              THEN /\ Return(ErrIO)
                   /\ UNCHANGED logs
              ELSE /\ pc' = IF todo = "return" THEN "exit" ELSE "keepalive"
                   /\ logs' = IF todo = "return" THEN logs ELSE "spawned"
                   /\ UNCHANGED err
    /\ UNCHANGED <<ctx, lk, mv, containers, nextId, nextPid, procs, layout, sock,
                   inv>>

\* PipeLogs that ends the invocation when the stream breaks
PipeLogsFatal ==
    /\ \/ /\ logs = "spawned"
          /\ logs' = IF ctx.Logs THEN "streaming" ELSE "returned"
          /\ UNCHANGED <<pc, err>>
       \/ /\ logs = "streaming"
          /\ \/ logs' = "failed" /\ Return(ErrEngine)
             \/ /\ ctx.Id \in DOMAIN containers => ~containers[ctx.Id].running
                /\ logs' = "returned"
                /\ UNCHANGED <<pc, err>>
    /\ UNCHANGED <<ctx, lk, mv, containers, nextId, nextPid, procs, layout,
                   sock, pidfile, inv, h>>

\* the goroutine go pipeLogs(c): client.Logs follows the container's output
\* until the container stops or the stream breaks
PipeLogs ==
    /\ \/ /\ logs = "spawned"
          /\ logs' = IF ctx.Logs THEN "streaming" ELSE "returned"
       \/ /\ logs = "streaming"
          /\ \/ logs' = "failed"
             \/ /\ ctx.Id \in DOMAIN containers => ~containers[ctx.Id].running
                /\ logs' = "returned"
    /\ UNCHANGED <<ctx, pc, err, lk, mv, containers, nextId, nextPid, procs, layout,
                   sock, pidfile, inv, h>>

\* KeepAlivePolls that looks at c.Logs only
KeepAlivePollsLogsOnly(c) == c.Logs

\* keepAlive: the test that makes it poll the engine
KeepAlivePolls(c) == c.Logs \/ c.Rm

\* KeepAliveAfterInspect that returns after the first inspect
KeepAliveAfterInspectReturns(running) == "return"

\* keepAlive: what it does with container.State.Running: "sleep" or "return"
KeepAliveAfterInspect(running) == IF running THEN "sleep" ELSE "return"

\* keepAlive: one turn of its loop
KeepAlive ==
    /\ pc = "keepalive"
    /\ IF KeepAlivePolls(ctx)
       THEN \E ok \in BOOLEAN :
              IF ~ok \/ ctx.Id \notin DOMAIN containers
              THEN /\ Return(ErrEngine)
                   /\ h' = [Enter(h, "keepalive") EXCEPT !.poll = "failed"]
              ELSE /\ h' = [Enter(h, "keepalive") EXCEPT
                               !.poll = IF containers[ctx.Id].running
                                        THEN "running" ELSE "stopped"]
                   /\ pc' = IF KeepAliveAfterInspect(containers[ctx.Id].running) = "sleep"
                            THEN pc ELSE "rm"
                   /\ UNCHANGED err
       ELSE /\ pc' = "rm"
            /\ h' = Enter(h, "keepalive")
            /\ UNCHANGED err
    /\ UNCHANGED <<ctx, lk, mv, logs, containers, nextId, nextPid, procs, layout,
                   sock, pidfile, inv>>

\* RemovesOnExit for a rmContainer that does not test c.Rm
RemovesOnExitAlways(c) == TRUE

\* rmContainer: the container is removed only with --rm
RemovesOnExit(c) == c.Rm

\* rmContainer, and the return of mainWithArgs
RmContainer ==
    /\ pc = "rm"
    /\ IF ~RemovesOnExit(ctx)
       THEN /\ pc' = "exit"
            /\ h' = Enter(h, "teardown")
            /\ UNCHANGED <<err, containers, procs>>
       ELSE /\ h' = [Enter(h, "teardown") EXCEPT
                            !.ops = Append(@, Cmd("rm", ctx.Id)),
                            !.rms = Append(@, "teardown")]
            /\ \E ok \in BOOLEAN :
                IF ok /\ ctx.Id \in DOMAIN containers
                THEN /\ EngineRemoves(ctx.Id)
                     /\ pc' = "exit"
                     /\ UNCHANGED err
                ELSE /\ Return(ErrEngine)
                     /\ UNCHANGED <<containers, procs>>
    /\ UNCHANGED <<ctx, lk, mv, logs, nextId, nextPid, layout, sock, pidfile, inv>>

\* the unit is started again: a new invocation with the same arguments
Reinvoke ==
    /\ pc = "exit"
    /\ inv < MaxInvocations
    /\ inv' = inv + 1
    /\ ctx' = [ctx EXCEPT !.Id = NoId, !.Pid = 0]
    /\ pc' = "run"
    /\ err' = NoErr
    /\ lk' = NoId
    /\ mv' = MvInit
    /\ logs' = "idle"
    /\ sock' = <<>>
    /\ h' = [HInit EXCEPT !.exited = h.exited, !.resolved = h.resolved]
    /\ UNCHANGED <<containers, nextId, nextPid, procs, layout, pidfile>>

Next ==
    \/ LookupInspect
    \/ LookupRemove
    \/ LookupStart
    \/ LookupReinspect
    \/ LaunchContainer
    \/ LaunchGetPid
    \/ RunCheck
    \/ MoveSnapshot
    \/ MoveController
    \/ MovePid
    \/ MoveWrite
    \/ NotifyCheck
    \/ NotifyMainPid
    \/ NotifyRecheck
    \/ NotifyReady
    \/ PidFile
    \/ PipeLogs
    \/ KeepAlive
    \/ RmContainer
    \/ \E p \in DOMAIN procs : Exit(p)

\* one invocation of the wrapper
Spec == Init /\ [][Next]_vars

NextMig ==
    \/ MoveSnapshot
    \/ MoveController
    \/ MovePid
    \/ MoveWrite
    \/ \E p \in DOMAIN procs : Exit(p)

\* moveCgroups on its own
SpecMig == InitMig /\ [][NextMig]_vars

NextRepeat ==
    \/ LookupInspect
    \/ LookupRemove
    \/ LookupStart
    \/ LookupReinspect
    \/ LaunchContainer
    \/ LaunchGetPid
    \/ RunCheck
    \/ MoveSnapshot
    \/ MoveController
    \/ MovePid
    \/ MoveWrite
    \/ NotifyCheck
    \/ PidFile
    \/ PipeLogs
    \/ KeepAlive
    \/ RmContainer
    \/ \E p \in DOMAIN procs : Exit(p)
    \/ Reinvoke

\* MaxInvocations invocations one after the other
SpecRepeat == InitRepeat /\ [][NextRepeat]_vars


(***************************************************************************)
(* An unnamed container, without socket and pid file, and a poller that    *)
(* is scheduled again and again: time.Sleep returns and keepAlive takes    *)
(* the next turn of its loop.                                              *)
(***************************************************************************)
InitLive ==
    \E c \in ParsedContexts :
        /\ c.Name = "" /\ c.NotifySocket = "" /\ c.PidFile = ""
        /\ ~c.AllCgroups /\ c.Cgroups = <<>>
        /\ InitWith(c, [containers |-> <<>>, mains |-> {}], SelfCg,
                    [d \in Dirs |-> DockerBase])
        /\ pc = "run"
        /\ h = HInit

NextLive ==
    \/ LaunchContainer
    \/ LaunchGetPid
    \/ RunCheck
    \/ MoveSnapshot
    \/ MoveController
    \/ MovePid
    \/ MoveWrite
    \/ NotifyCheck
    \/ PidFile
    \/ PipeLogs
    \/ KeepAlive
    \/ RmContainer
    \/ \E p \in DOMAIN procs : Exit(p)

SpecLive == InitLive /\ [][NextLive]_vars /\ WF_vars(KeepAlive)


(***************************************************************************)
(* Properties of moveCgroups.  They read the kernel's own record of the    *)
(* groups (procs), not the paths the wrapper computed.                     *)
(***************************************************************************)
\* the process pid is in the group the wrapper is in, in the hierarchy of ctl
InCallerGroup(pid, ctl) ==
    \E x \in Hierarchies :
        /\ x.key = ctl
        /\ procs[SelfPid][x.dir] # NoPath
        /\ procs[pid][x.dir] = procs[SelfPid][x.dir]

\* ctl is in both snapshots, with a target path that is neither the caller's
\* path nor the root
TargetDiffers(ctl) ==
    /\ ctl \in DOMAIN mv.currentCgroups
    /\ ctl \in DOMAIN mv.containerCgroups
    /\ mv.containerCgroups[ctl] # mv.currentCgroups[ctl]
    /\ mv.containerCgroups[ctl] # Root

MoveReturnedNil == h.mvDone /\ err = NoErr

\* C1: after moveCgroups, for every controller in both memberships whose
\* target path is neither the caller's path nor the root, every pid that was
\* listed under the target's path and was alive when it was written is in the
\* caller's group of that controller: each write made for a live process put
\* it there, and when moveCgroups returns without error every listed process
\* that is still alive is there.
C1_ListedAliveAreMoved ==
    /\ \A w \in h.writes :
           (w.ok /\ TargetDiffers(w.ctl) /\ Atoi(w.pid).val \in DOMAIN procs)
               => InCallerGroup(Atoi(w.pid).val, w.ctl)
    /\ MoveReturnedNil =>
           \A l \in h.lists :
               (TargetDiffers(l[1]) /\ Atoi(l[2]).val \in DOMAIN procs)
                   => InCallerGroup(Atoi(l[2]).val, l[1])

\* moveCgroups returned nil after it moved the two live processes of the
\* container in two controllers
C1_Witness ==
    /\ MoveReturnedNil
    /\ Cardinality({w \in h.writes : w.ok}) >= 4
    /\ \A l \in h.lists : TargetDiffers(l[1]) /\ InCallerGroup(Atoi(l[2]).val, l[1])

\* C2: moveCgroups never lists or writes a pid for a controller that is absent
\* from the caller's membership or from the target's, or whose target path is
\* the caller's path or the root; such a controller is skipped without error:
\* an error after the snapshots comes from a controller that was listed.
C2_OnlyDifferingListed ==
    /\ \A ctl \in h.listed \cup {w.ctl : w \in h.writes} \cup {l[1] : l \in h.lists} :
           TargetDiffers(ctl)
    /\ (h.mvDone /\ h.snap /\ h.listed = {}) => (err = NoErr /\ ~mv.ret)

\* the scenario of the specification: every controller selected, cpu differs
\* and is migrated, the other controller of the target is at the root and is
\* skipped, and moveCgroups returns nil
C2_Witness ==
    /\ MoveReturnedNil
    /\ ctx.AllCgroups
    /\ h.listed = {CPU}
    /\ h.skipped = {SYSTEMD}
    /\ mv.containerCgroups[SYSTEMD] = Root
    /\ SYSTEMD \in DOMAIN mv.currentCgroups
    /\ \E w \in h.writes : w.ok /\ w.ctl = CPU

\* C3: the exit of a listed process never makes moveCgroups return an error:
\* whenever moveCgroups has returned an error, no write of a listed pid failed.
C3_ExitOfListedIsNoError ==
    (h.mvDone /\ err # NoErr) => \A w \in h.writes : w.ok


(***************************************************************************)
(* Properties of runContainer.  h.lookup is the engine's answer to the     *)
(* first inspect, h.seen the container it reported, h.ops the commands     *)
(* the wrapper has sent to the engine so far.                              *)
(***************************************************************************)
OpsOf(name) == {k \in 1..Len(h.ops) : h.ops[k].op = name}

\* C4: a name is given and the engine reports the container running: the
\* handle has the id and the pid of that inspect, no launch and no start is
\* issued, no removal either (but by the teardown, after keep-alive saw the
\* container stopped), and the container stays the same one: same id, same
\* configuration, and running with the same pid unless it exited by itself.
C4_ReattachAdopts ==
    h.lookup = "running" =>
        /\ ctx.Id = h.seen
        /\ ctx.Pid = h.seenPid
        /\ OpsOf("run") = {}
        /\ OpsOf("start") = {}
        /\ OpsOf("rm") # {} => (pc = "exit" /\ h.poll = "stopped")
        /\ OpsOf("rm") = {} =>
               /\ h.seen \in DOMAIN containers
               /\ containers[h.seen].name = ctx.Name
               /\ containers[h.seen].cfg = h.seenCfg
               /\ h.seen \notin h.exited =>
                      /\ containers[h.seen].running
                      /\ containers[h.seen].pid = h.seenPid

\* the invocation returned nil after it reattached to a container that is
\* still running
C4_Witness ==
    /\ h.lookup = "running"
    /\ pc = "exit"
    /\ err = NoErr
    /\ ctx.Id = h.seen
    /\ ctx.Pid = FirstPid
    /\ containers[h.seen].running
    /\ pidfile = Itoa(FirstPid)

\* C5: a name is given, the container exists and is stopped, and --rm: the
\* old container is removed before the launch is issued (and never started),
\* and the id of the handle is not the removed container's id.
C5_StaleRemovedBeforeLaunch ==
    (h.lookup = "stopped" /\ ctx.Rm) =>
        /\ OpsOf("start") = {}
        /\ \A k \in OpsOf("run") :
               \E j \in OpsOf("rm") : j < k /\ h.ops[j].id = h.seen
        /\ OpsOf("run") # {} => h.seen \notin DOMAIN containers
        /\ ctx.Id # h.seen
        /\ h.run = "ok" => ctx.Id # NoId

\* runContainer returned nil with a new container in place of the stale one
C5_Witness ==
    /\ h.lookup = "stopped"
    /\ ctx.Rm
    /\ h.run = "ok"
    /\ pc = "move"
    /\ ctx.Id \in DOMAIN containers
    /\ containers[ctx.Id].cfg = ctx.Args

\* C6: a name is given, the container exists and is stopped, and no --rm: the
\* wrapper starts that container (no launch, no removal) and inspects it
\* again; the handle has the id of the existing container, whose
\* configuration is kept; and over repeated invocations the name resolves to
\* one id only.
C6_RestartKeepsId ==
    /\ (h.lookup = "stopped" /\ ~ctx.Rm) =>
           /\ OpsOf("run") = {}
           /\ OpsOf("rm") = {}
           /\ ctx.Id \in {NoId, h.seen}
           /\ h.run = "ok" =>
                  /\ ctx.Id = h.seen
                  /\ h.ops[2] = Cmd("start", h.seen)
                  /\ h.ops[3] = Cmd("inspect", NoId)
           /\ h.seen \in DOMAIN containers
           /\ containers[h.seen].name = ctx.Name
           /\ containers[h.seen].cfg = h.seenCfg
    /\ (ctx.Name # "" /\ ~ctx.Rm) => Cardinality(h.resolved) <= 1

\* the second invocation restarted the container the first one had launched
C6_Witness ==
    /\ inv = 2
    /\ h.lookup = "stopped"
    /\ ~ctx.Rm
    /\ h.run = "ok"
    /\ h.resolved = {ctx.Id}
    /\ containers[ctx.Id].cfg = ctx.Args
    /\ containers[ctx.Id].running

NoPrior == ctx.Name = "" \/ h.lookup = "absent"

\* C7: no name is given, or the engine has no container of the name: the
\* wrapper launches, once, with that name; the absence is no error; and the
\* id and the pid of the handle are those of the launched container, the pid
\* read by the inspect that follows the launch.
C7_LaunchWhenAbsent ==
    NoPrior =>
        /\ pc \notin {"run", "launch"} =>
               /\ Cardinality(OpsOf("run")) = 1
               /\ OpsOf("start") = {}
               /\ \A k \in OpsOf("rm") : \A j \in OpsOf("run") : j < k
        /\ pc = "exit" => OpsOf("run") # {}
        /\ \A k \in OpsOf("run") :
               h.ops[k].id \in DOMAIN containers =>
                   containers[h.ops[k].id].name = ctx.Name
        /\ h.run = "ok" =>
               \E k \in OpsOf("run") :
                   /\ ctx.Id = h.ops[k].id
                   /\ ctx.Id # NoId
                   /\ h.ops[k + 1] = Cmd("inspect", ctx.Id)
                   /\ ctx.Pid = h.launchPid
                   /\ ctx.Pid >= FirstPid

\* runContainer returned nil after the lookup by name found nothing
C7_Witness ==
    /\ h.lookup = "absent"
    /\ h.run = "ok"
    /\ pc = "move"
    /\ containers[ctx.Id].name = "web"
    /\ containers[ctx.Id].pid = ctx.Pid

\* C8: runContainer returns nil only with a pid > 0 in the handle.
C8_ResolvedPidPositive ==
    h.run = "ok" => ctx.Pid > 0


(***************************************************************************)
(* Properties of notify.  h.sent is the writes notify made, in order, each *)
(* with its outcome; sock is what the supervisor received; h.nt is what    *)
(* notify returned.                                                        *)
(***************************************************************************)
Last(seq) == seq[Len(seq)]
IsMainPid(msg) == msg[1] = "MAINPID="
LastMainPid(seq) ==
    seq[CHOOSE k \in 1..Len(seq) :
            IsMainPid(seq[k]) /\ \A j \in (k + 1)..Len(seq) : ~IsMainPid(seq[j])]

\* C9: notify called for a pid whose process has exited writes nothing and
\* returns the "exited before notification" error, with or without a socket,
\* with or without --notify.
C9_DeadPidNotNotified ==
    (h.ntCalled /\ h.ntEntryDead) =>
        /\ h.sent = <<>>
        /\ sock = <<>>
        /\ h.nt = "failed"
        /\ pc = "exit"
        /\ err = ErrExited

\* notify was called, with a socket and READY=1 its own to send, for a
\* container whose main process had exited during the migration
C9_Witness ==
    /\ h.ntCalled
    /\ h.ntEntryDead
    /\ ctx.NotifySocket # ""
    /\ ~ctx.Notify
    /\ ctx.Pid > 0
    /\ h.snap

\* C10 as stated: when the second check finds the process dead, the
\* correction MAINPID=<own pid> is the last message written, READY=1 is not
\* written and the error is "exited before notification"; and whenever notify
\* fails after MAINPID=<pid> was sent, the last MAINPID the supervisor
\* received is the wrapper's own pid.
C10_FailedNotifyLeavesOwnPid ==
    /\ h.ntRecheckDead =>
           /\ Last(h.sent).msg = MainPidMsg(SelfPid)
           /\ \A k \in 1..Len(h.sent) : h.sent[k].msg # ReadyMsg
           /\ err = ErrExited
    /\ (h.nt = "failed" /\ \E k \in 1..Len(sock) : sock[k] = MainPidMsg(ctx.Pid)) =>
           LastMainPid(sock) = MainPidMsg(SelfPid)

\* C10 as amended: when the second check finds the process dead, notify
\* writes MAINPID=<own pid> as its last write, right after the delivered
\* MAINPID=<pid>, writes no READY=1 and returns "exited before notification";
\* and whenever notify returns that error after a write, its last write is
\* MAINPID=<own pid>, which is the last message the supervisor received when
\* that write was delivered.
C10_CorrectionWrittenLast ==
    /\ h.ntRecheckDead =>
           /\ h.nt = "failed"
           /\ err = ErrExited
           /\ Len(h.sent) = 2
           /\ h.sent[1] = [msg |-> MainPidMsg(ctx.Pid), ok |-> TRUE]
           /\ h.sent[2].msg = MainPidMsg(SelfPid)
    /\ (h.nt = "failed" /\ err = ErrExited /\ h.sent # <<>>) =>
           /\ Last(h.sent).msg = MainPidMsg(SelfPid)
           /\ Last(h.sent).ok => Last(sock) = MainPidMsg(SelfPid)

\* the process died between the two checks and the supervisor received the
\* correction
C10_Witness ==
    /\ h.ntCalled
    /\ ~h.ntEntryDead
    /\ h.ntRecheckDead
    /\ sock = <<MainPidMsg(ctx.Pid), MainPidMsg(SelfPid)>>
    /\ err = ErrExited

ReadyWrites == {k \in 1..Len(h.sent) : h.sent[k].msg = ReadyMsg}

\* C11: READY=1 is written at most once in an invocation, and only with a
\* socket configured, without --notify, after both liveness checks found the
\* process alive and right after the write of MAINPID=<pid>, which succeeded
\* and was the first write; with --notify the wrapper writes MAINPID=<pid>
\* and never READY=1.
C11_ReadyOnceAfterMainPid ==
    /\ Cardinality(ReadyWrites) <= 1
    /\ \A k \in ReadyWrites :
           /\ ctx.NotifySocket # ""
           /\ ~ctx.Notify
           /\ h.ntAlive = 2
           /\ ~h.ntEntryDead /\ ~h.ntRecheckDead
           /\ k = 2
           /\ h.sent[1] = [msg |-> MainPidMsg(ctx.Pid), ok |-> TRUE]
    /\ \A k \in 1..Len(sock) : sock[k] = ReadyMsg =>
           (k = 2 /\ sock[1] = MainPidMsg(ctx.Pid))
    /\ ctx.Notify =>
           /\ ReadyWrites = {}
           /\ h.nt = "nil" => (h.sent = <<[msg |-> MainPidMsg(ctx.Pid), ok |-> TRUE]>>
                                /\ sock = <<MainPidMsg(ctx.Pid)>>)

\* notify returned nil after the supervisor received MAINPID=<pid> and READY=1
C11_Witness ==
    /\ h.nt = "nil"
    /\ ~ctx.Notify
    /\ sock = <<MainPidMsg(ctx.Pid), ReadyMsg>>
    /\ h.ntAlive = 2

\* C12: READY=1 is never written after the workload's main process has
\* exited, whatever the moment of the exit: at every write of READY=1 the
\* process of MAINPID is alive.
C12_NoReadyAfterExit ==
    ~h.readyDead

\* C13: the process is alive and no socket is configured: notify opens no
\* connection, writes nothing and returns nil, and mainWithArgs goes on to
\* pidFile.
C13_NoSocketIsNoOp ==
    (h.ntCalled /\ ~h.ntEntryDead /\ ctx.NotifySocket = "") =>
        /\ ~h.dialed
        /\ h.sent = <<>>
        /\ sock = <<>>
        /\ h.nt = "nil"
        /\ h.ntAlive = 1
        /\ pc = "pidfile" \/ \E k \in 1..Len(h.steps) : h.steps[k] = "pidfile"
        /\ pc = "pidfile" => err = NoErr

\* notify was a no-op and the pid file was written next
C13_Witness ==
    /\ h.ntCalled
    /\ ~h.ntEntryDead
    /\ ctx.NotifySocket = ""
    /\ h.nt = "nil"
    /\ sock = <<>>
    /\ pidfile = Itoa(ctx.Pid)
    /\ Last(h.steps) = "pidfile"


(***************************************************************************)
(* Properties of the end of mainWithArgs.  h.steps is the steps it called, *)
(* in order; h.poll the answer to the last inspect of keepAlive.           *)
(***************************************************************************)
Called(step) == \E k \in 1..Len(h.steps) : h.steps[k] = step
ReturnedNil == pc = "exit" /\ err = NoErr
KeepAliveReturnedNil == pc = "rm" \/ Called("teardown")

\* C14: when an invocation with --rm returns nil the container of the handle
\* is gone from the engine, and its removal is never issued before an inspect
\* of keepAlive reported it not running.
C14_RmRemovesAfterStopped ==
    /\ (ctx.Rm /\ ReturnedNil) =>
           /\ ctx.Id \notin DOMAIN containers
           /\ \E k \in OpsOf("rm") : h.ops[k].id = ctx.Id
    /\ \A k \in OpsOf("rm") : h.ops[k].id = ctx.Id => h.poll = "stopped"

\* C15: -d changes nothing: an invocation that returns nil has spawned
\* pipeLogs and called keepAlive and rmContainer, and with --logs or --rm it
\* returns only after keepAlive saw the container stopped.
C15_DetachHasNoEffect ==
    ReturnedNil =>
        /\ logs # "idle"
        /\ Called("keepalive")
        /\ Called("teardown")
        /\ (ctx.Logs \/ ctx.Rm) => h.poll = "stopped"

\* C16: keepAlive asks the engine exactly when --logs or --rm is set; then it
\* returns nil only after an inspect of the handle's id reported the
\* container not running (it had stopped), never while the last inspect
\* reported it running; without --logs and --rm it returns nil without a
\* query.
C16_KeepAlivePollsWhenWanted ==
    /\ KeepAliveReturnedNil =>
           IF ctx.Logs \/ ctx.Rm THEN h.poll = "stopped" ELSE h.poll = "none"
    /\ (Called("keepalive") /\ (ctx.Logs \/ ctx.Rm)) => h.poll # "none"
    /\ ~(ctx.Logs \/ ctx.Rm) => h.poll = "none"
    /\ h.poll = "running" => pc = "keepalive"
    /\ h.poll = "stopped" => ctx.Id \in h.exited

\* keepAlive returned nil for --rm alone after it saw the container stopped
C16_Witness ==
    /\ pc = "rm"
    /\ ctx.Rm
    /\ ~ctx.Logs
    /\ h.poll = "stopped"
    /\ ctx.Id \in DOMAIN containers
    /\ ~containers[ctx.Id].running

PidFileReturnedNil ==
    Called("pidfile") /\ (ReturnedNil \/ pc \in {"keepalive", "rm"} \/ Called("keepalive"))

\* C17: with a pid-file path, once pidFile has returned nil the file holds
\* exactly the decimal text of the pid of the handle (4321 gives "4321"),
\* the pid whose cgroups were migrated and that MAINPID=<pid> named; without a
\* path no file is written; and nothing but pidFile writes the file.
C17_PidFileIsResolvedPid ==
    /\ (ctx.PidFile # "" /\ PidFileReturnedNil) =>
           /\ pidfile = Itoa(ctx.Pid)
           /\ Atoi(pidfile) = [ok |-> TRUE, val |-> h.mvPid]
           /\ \A w \in h.writes : w.ok /\ w.pid # pidfile => Atoi(w.pid).val \in Kids(h.mvPid)
           /\ h.sent # <<>> => h.sent[1].msg = <<"MAINPID=">> \o pidfile
    /\ ctx.PidFile = "" => pidfile = NoFile
    /\ pidfile # NoFile => Called("pidfile")
    /\ Itoa(4321) = <<"4", "3", "2", "1">>

\* the pid file holds the pid that was moved and that the supervisor was told
C17_Witness ==
    /\ pc = "keepalive"
    /\ ctx.PidFile # ""
    /\ pidfile = Itoa(ctx.Pid)
    /\ sock = <<MainPidMsg(ctx.Pid), ReadyMsg>>
    /\ \E w \in h.writes : w.ok /\ w.pid = pidfile


(***************************************************************************)
(* Properties of the failure paths.                                        *)
(***************************************************************************)
FailedWrites == {w \in h.writes : ~w.ok}

\* C18: a pid write that fails ends moveCgroups: no pid is written after it,
\* moveCgroups returns (false, error), the processes moved before stay in the
\* caller's groups, and the invocation ends with that error without a call of
\* notify.
C18_FailedWriteAborts ==
    /\ h.afterFail = 0
    /\ Cardinality(FailedWrites) <= 1
    /\ FailedWrites # {} =>
           /\ h.mvDone
           /\ ~mv.ret
           /\ pc = "exit"
           /\ err = ErrIO
           /\ ~h.ntCalled /\ ~Called("notify") /\ ~Called("pidfile")
           /\ h.sent = <<>> /\ sock = <<>>
           /\ \A w \in h.writes :
                  (w.ok /\ Atoi(w.pid).val \in DOMAIN procs)
                      => InCallerGroup(Atoi(w.pid).val, w.ctl)

\* a write failed after the main process had been moved, which is still in
\* the caller's group
C18_Witness ==
    /\ FailedWrites # {}
    /\ pc = "exit"
    /\ \E w \in h.writes :
           /\ w.ok
           /\ Atoi(w.pid).val = ctx.Pid
           /\ ctx.Pid \in DOMAIN procs
           /\ InCallerGroup(ctx.Pid, w.ctl)

Pipeline == <<"resolve", "migrate", "notify", "pidfile", "keepalive", "teardown">>

\* C19: mainWithArgs calls resolve, migrate, notify, pid-file, keep-alive,
\* teardown in that order, each at most once, and none after an error: an
\* error ends the invocation; the cgroups are read and written, messages sent
\* and the pid file written only after runContainer returned nil; notify is
\* called and messages are sent only after moveCgroups returned nil; and the
\* pid file is written only after notify returned nil.
C19_PipelineInOrder ==
    /\ Len(h.steps) <= Len(Pipeline)
    /\ \A k \in 1..Len(h.steps) : h.steps[k] = Pipeline[k]
    /\ ~h.afterErr
    /\ err # NoErr => pc = "exit"
    /\ (h.snap \/ h.writes # {} \/ h.sent # <<>> \/ pidfile # NoFile) =>
           (h.run = "ok" /\ ctx.Pid > 0)
    /\ (h.ntCalled \/ h.sent # <<>>) =>
           /\ Called("notify")
           /\ h.mvDone
           /\ FailedWrites = {}
    /\ (Called("pidfile") \/ pidfile # NoFile) => h.nt = "nil"
    /\ Called("keepalive") => (ctx.PidFile # "" => pidfile # NoFile)

\* an invocation that ran every step and returned nil
C19_Witness ==
    /\ ReturnedNil
    /\ h.steps = Pipeline
    /\ h.writes # {}
    /\ sock # <<>>
    /\ pidfile # NoFile
    /\ ctx.Rm


(***************************************************************************)
(* The controllers of a migration.                                         *)
(***************************************************************************)
Explicit == ~ctx.AllCgroups /\ Len(ctx.Cgroups) > 0
ListOf == {ctx.Cgroups[k] : k \in 1..Len(ctx.Cgroups)}
Touched == h.listed \cup {w.ctl : w \in h.writes} \cup {l[1] : l \in h.lists}

\* the controllers the processes of the container were started in
TargetMembership ==
    {x.key : x \in {y \in Hierarchies : ContainerPath(layout[y.dir], ctx.Id) # NoPath}}

\* C20: with an explicit list moveCgroups goes through the controllers of the
\* list and no other: it lists and writes pids for controllers of the list
\* only and the container's processes stay where they were in every other
\* hierarchy; with 'all' or no list it goes through every controller the
\* target is a member of.
C20_ControllerSet ==
    /\ Explicit =>
           /\ Touched \cup h.skipped \subseteq ListOf
           /\ MoveReturnedNil => h.listed \cup h.skipped = ListOf
           /\ \A x \in Hierarchies : x.key \notin ListOf =>
                  \A p \in DOMAIN procs \ {SelfPid} :
                      procs[p][x.dir] = ContainerPath(layout[x.dir], ctx.Id)
    /\ ~Explicit =>
           /\ Touched \cup h.skipped \subseteq TargetMembership
           /\ MoveReturnedNil => h.listed \cup h.skipped = TargetMembership

\* the list is cpu alone: the processes were moved in cpu and left alone in
\* name=systemd, where 'all' would have moved them
C20_Witness ==
    /\ MoveReturnedNil
    /\ ctx.Cgroups = <<CPU>>
    /\ \E w \in h.writes : w.ok /\ w.ctl = CPU
    /\ InCallerGroup(ctx.Pid, CPU)
    /\ SYSTEMD \in TargetMembership
    /\ procs[ctx.Pid]["systemd"] = ContainerPath(DockerBase, ctx.Id)
    /\ procs[SelfPid]["systemd"] = <<"a">>


(***************************************************************************)
(* Properties of the log streaming goroutine.                              *)
(***************************************************************************)
\* a step of the goroutine: logs changes, but not by its spawn or by a new
\* invocation
LogsStep == logs' # logs /\ logs' \notin {"spawned", "idle"}

MainPidWrites == {k \in 1..Len(h.sent) : h.sent[k].msg = MainPidMsg(ctx.Pid)}

\* C22: nothing is tried again in an invocation: docker run is issued at
\* most once, the start of a container at most once, the socket is dialed at
\* most once, MAINPID=<container pid> is written at most once, and no pid is
\* written twice for a controller; keepAlive's inspect alone is repeated.
C22_NoRetry ==
    /\ Cardinality(OpsOf("run")) <= 1
    /\ Cardinality(OpsOf("start")) <= 1
    /\ Cardinality(OpsOf("rm")) <= 2
    /\ h.dials <= 1
    /\ Cardinality(MainPidWrites) <= 1
    /\ h.rewrites = 0
    /\ err # NoErr => pc = "exit"

\* docker run failed and the invocation ended on it
C22_Witness ==
    /\ pc = "exit"
    /\ err = ErrExec
    /\ h.resFail = "run"
    /\ Cardinality(OpsOf("run")) = 1
    /\ h.lookup = "stopped"

SpawnSucceeded == \E k \in OpsOf("run") : h.ops[k].id # NoId

\* C23: when docker run of a fresh launch exits successfully and the engine
\* answers the inspect that follows, runContainer returns nil with a pid > 0,
\* whenever the workload exits.
C23_SpawnedHasPid ==
    (SpawnSucceeded /\ pc \notin {"getpid", "runcheck"} /\ err # ErrEngine) =>
        (h.run = "ok" /\ ctx.Pid > 0)

PollWanted == ctx.Logs \/ ctx.Rm
Stopped == ctx.Id \in DOMAIN containers /\ ~containers[ctx.Id].running

\* C24: with --logs or --rm, once the container has stopped a keepAlive that
\* is polling returns, unless an inspect fails; and keepAlive leaves its loop
\* for rmContainer on nothing else: never while the container runs, however
\* long that is.
C24_KeepAliveReturnsWhenStopped ==
    /\ (pc = "keepalive" /\ PollWanted /\ Stopped) ~> (KeepAliveReturnedNil \/ h.poll = "failed")
    /\ [][(pc = "keepalive" /\ pc' # "keepalive" /\ PollWanted)
             => (Stopped \/ (pc' = "exit" /\ err' = ErrEngine))]_vars
    /\ []((PollWanted /\ Called("teardown")) => Stopped \/ ctx.Id \notin DOMAIN containers)

\* keepAlive polled a running container, and returned after it had stopped
C24_Witness ==
    /\ pc = "rm"
    /\ ctx.Logs
    /\ h.poll = "stopped"
    /\ Stopped
    /\ logs = "streaming"


(***************************************************************************)
(* Properties of the value and the reads of moveCgroups.                   *)
(***************************************************************************)
SomeWriteSucceeded == \E w \in h.writes : w.ok

\* a controller moveCgroups goes through in which the container was started
\* in a group that is neither the caller's nor the root
PathsDiffer ==
    \E x \in Hierarchies :
        /\ Explicit => x.key \in ListOf
        /\ procs[SelfPid][x.dir] # NoPath
        /\ ContainerPath(layout[x.dir], ctx.Id)
               \notin {NoPath, Root, procs[SelfPid][x.dir]}

MembershipAtStart(paths) ==
    [k \in {x.key : x \in {y \in Hierarchies : paths[y.dir] # NoPath}} |->
        paths[(CHOOSE x \in Hierarchies : x.key = k).dir]]

\* C26: moveCgroups reads the caller's membership and then the target's,
\* each once and both before the first listing and the first write, and goes
\* on with these two snapshots: they stay what they were at the start
\* whatever the writes have changed, so a controller it has listed is never
\* skipped later.
C26_SnapshotsReadOnce ==
    /\ Len(h.reads) <= 2
    /\ \A k \in 1..Len(h.reads) : h.reads[k] = <<SelfPid, ctx.Pid>>[k]
    /\ (h.snap \/ h.listed # {} \/ h.writes # {}) => h.reads = <<SelfPid, ctx.Pid>>
    /\ h.snap =>
           /\ mv.currentCgroups = MembershipAtStart(procs[SelfPid])
           /\ mv.containerCgroups =
                  MembershipAtStart([d \in Dirs |-> ContainerPath(layout[d], ctx.Id)])
    /\ h.listed \cap h.skipped = {}

\* cpu is named twice: at its second turn the main process is in the caller's
\* group already and the snapshot still has its first group
C26_Witness ==
    /\ ctx.Cgroups = <<CPU, CPU>>
    /\ mv.i = 2
    /\ pc = "mv_pid"
    /\ ctx.Pid \in DOMAIN procs
    /\ InCallerGroup(ctx.Pid, CPU)
    /\ mv.containerCgroups[CPU] # procs[ctx.Pid]["cpu"]
    /\ h.reads = <<SelfPid, ctx.Pid>>


(***************************************************************************)
(* Properties of the handle and of the failures of resolution.             *)
(***************************************************************************)
\* C27: before moveCgroups reads anything for the handle, the pid of the
\* handle has been found positive and /proc/<pid> has been found to exist.
C27_HandleCheckedBeforeMigration ==
    h.reads # <<>> => (ctx.Pid > 0 /\ h.procChecked)

\* C28: a failed inspect by name (other than no-such-container), a failed
\* removal of the stale container, a failed start, a failed inspect after
\* the start and a failed docker run each end runContainer with that error,
\* not with "pid is 0": nothing is launched after it, the pid stays unset and
\* moveCgroups is not called.
C28_ResolutionErrorsPropagate ==
    h.resFail # "" =>
        /\ pc = "exit"
        /\ err = IF h.resFail = "run" THEN ErrExec ELSE ErrEngine
        /\ err # ErrPidIsZero
        /\ ctx.Pid = 0
        /\ h.run # "ok"
        /\ ~Called("migrate")
        /\ h.reads = <<>> /\ h.writes = {} /\ h.sent = <<>> /\ pidfile = NoFile
        /\ Last(h.ops).op = (IF h.resFail = "reinspect" THEN "inspect" ELSE h.resFail)
        /\ h.resFail # "run" => OpsOf("run") = {}
        /\ h.resFail = "run" => (Cardinality(OpsOf("run")) = 1 /\ Last(h.ops).id = NoId)

\* the removal of the stale container failed and the invocation ended on it
C28_Witness ==
    /\ h.resFail = "rm"
    /\ h.lookup = "stopped"
    /\ ctx.Rm
    /\ err = ErrEngine
    /\ h.seen \in DOMAIN containers


(***************************************************************************)
(* Properties of the pid file's failure and of the removals.               *)
(***************************************************************************)
\* C29: a failed write of the pid file ends the invocation with that error;
\* what was done before stays: the moved processes are in the caller's
\* groups, the supervisor has received what it had received and nothing
\* more, no group and no message is written after it, and pipeLogs,
\* keepAlive and rmContainer are not run, so the container stays.
C29_PidFileFailureKeepsEffects ==
    h.pfFailed =>
        /\ pc = "exit"
        /\ err = ErrIO
        /\ ~Called("keepalive") /\ ~Called("teardown")
        /\ logs = "idle"
        /\ h.poll = "none"
        /\ h.nt = "nil"
        /\ sock = h.pfSock
        /\ \A p \in DOMAIN procs : procs[p] = h.pfProcs[p]
        /\ \A w \in h.writes :
               (w.ok /\ Atoi(w.pid).val \in DOMAIN procs)
                   => InCallerGroup(Atoi(w.pid).val, w.ctl)
        /\ \A k \in OpsOf("rm") : h.ops[k].id # ctx.Id
        /\ ctx.Id \in DOMAIN containers

\* the write of the pid file failed after the migration and READY=1
C29_Witness ==
    /\ h.pfFailed
    /\ sock = <<MainPidMsg(ctx.Pid), ReadyMsg>>
    /\ ctx.Pid \in DOMAIN procs
    /\ InCallerGroup(ctx.Pid, CPU)
    /\ InCallerGroup(ctx.Pid, SYSTEMD)
    /\ ctx.Rm

\* the removals issued by lookupNamedContainer and by rmContainer
\* (h.rms names, for each removal in the order of h.ops, the step that issued it)
RemovalsAt(step) ==
    {k \in OpsOf("rm") :
        LET n == Cardinality({j \in OpsOf("rm") : j <= k})
        IN n <= Len(h.rms) /\ h.rms[n] = step}
LookupRemovals == RemovalsAt("resolve")
TeardownRemovals == RemovalsAt("teardown")
EarlierStepsSucceeded ==
    /\ h.steps = Pipeline
    /\ ~h.afterErr
    /\ h.run = "ok"
    /\ h.mvDone /\ FailedWrites = {}
    /\ h.nt = "nil"
    /\ ~h.pfFailed
    /\ ctx.PidFile # "" => pidfile # NoFile

\* C30: a removal is issued only with --rm, and only for a named container
\* that the inspect of the resolution found stopped, before the launch, or by
\* rmContainer for the container of the handle after every earlier step
\* returned nil and keepAlive saw that container not running; without --rm no
\* removal is issued; and when the invocation ends with an error the
\* container it launched, or resolved, is still in the engine.
C30_RemovalsOnlyWhenAsked ==
    /\ OpsOf("rm") # {} => ctx.Rm
    /\ OpsOf("rm") = LookupRemovals \cup TeardownRemovals
    /\ \A k \in LookupRemovals :
           /\ ctx.Name # ""
           /\ h.lookup = "stopped"
           /\ h.seen # NoId
           /\ h.ops[k].id = h.seen
           /\ k = 2 /\ h.ops[1].op = "inspect"
           /\ \A j \in OpsOf("run") \cup OpsOf("start") : k < j
    /\ \A k \in TeardownRemovals :
           /\ k = Len(h.ops)
           /\ h.ops[k].id = ctx.Id
           /\ EarlierStepsSucceeded
           /\ h.poll = "stopped"
    /\ Cardinality(LookupRemovals) <= 1
    /\ Cardinality(TeardownRemovals) <= 1
    /\ ~ctx.Rm => OpsOf("rm") = {}
    /\ err # NoErr =>
           /\ \A k \in OpsOf("run") :
                  h.ops[k].id # NoId => h.ops[k].id \in DOMAIN containers
           /\ ctx.Id # NoId => ctx.Id \in DOMAIN containers

\* both removals in one invocation: the stopped container of the name is
\* removed, a new one launched, and removed after it stopped
C30_Witness ==
    /\ ReturnedNil
    /\ Cardinality(LookupRemovals) = 1
    /\ Cardinality(TeardownRemovals) = 1
    /\ ctx.Id \notin DOMAIN containers
    /\ h.seen \notin DOMAIN containers


(***************************************************************************)
(* The files moveCgroups writes, and what the writes change.               *)
(***************************************************************************)
\* the cgroup.procs file of the group the wrapper is in, in the hierarchy x
CallerProcsFile(x) == <<SYSFS, x.dir, procs[SelfPid][x.dir], PROCS>>

\* the group the engine started the container of the handle in
StartedIn(x) == ContainerPath(layout[x.dir], ctx.Id)

\* a step that changes the group of a process in a hierarchy is a write of
\* moveCgroups for the controller and the pid it is at, the pid was listed
\* for that controller, and the process is now in the wrapper's group
MembershipChangesByWriteOnly ==
    \A p \in DOMAIN procs \cap DOMAIN procs' :
        \A x \in Hierarchies :
            procs'[p][x.dir] # procs[p][x.dir] =>
                /\ pc = "mv_write"
                /\ p # SelfPid
                /\ x.key = mv.ns[mv.i]
                /\ Itoa(p) = mv.pids[mv.j]
                /\ <<x.key, Itoa(p)>> \in h.lists
                /\ procs[p][x.dir] = StartedIn(x)
                /\ procs'[p][x.dir] = procs[SelfPid][x.dir]

\* the wrapper is alive and in the groups it was in
CallerStays == SelfPid \in DOMAIN procs' /\ procs'[SelfPid] = procs[SelfPid]

\* C31: every pid moveCgroups writes goes to the cgroup.procs file of the
\* wrapper's own group in the hierarchy of the controller the pid was listed
\* from, the directory being the controller's name without name=; it is
\* never the file of the target's group, the pid was listed under the
\* target's path for that controller and is not the wrapper's; a write
\* changes the group of that one process in that one hierarchy and nothing
\* else, and the wrapper stays in the groups it was in.
C31_WritesGoToCallerGroup ==
    /\ [](\A w \in h.writes :
             /\ <<w.ctl, w.pid>> \in h.lists
             /\ w.pid # Itoa(SelfPid)
             /\ \E x \in Hierarchies :
                    /\ x.key = w.ctl
                    /\ w.file = CallerProcsFile(x)
                    /\ w.file[3] # StartedIn(x)
                    /\ w.file[3] # NoPath)
    /\ [][MembershipChangesByWriteOnly]_vars
    /\ [][CallerStays]_vars

\* the main process of the container was listed in name=systemd and in cpu and
\* written to the wrapper's groups /a of both; its other process is still
\* where the engine started it in the hierarchy moveCgroups is at
C31_Witness ==
    /\ \A x \in Hierarchies :
           /\ procs[SelfPid][x.dir] = <<"a">>
           /\ StartedIn(x) = DockerBase \o Itoa(ctx.Id)
    /\ \E w \in h.writes :
           /\ w.ok /\ w.ctl = SYSTEMD /\ w.pid = Itoa(ctx.Pid)
           /\ w.file = <<SYSFS, "systemd", <<"a">>, PROCS>>
    /\ \E w \in h.writes : w.ok /\ w.ctl = CPU /\ w.pid = Itoa(ctx.Pid)
    /\ ctx.Pid \in DOMAIN procs
    /\ InCallerGroup(ctx.Pid, SYSTEMD)
    /\ InCallerGroup(ctx.Pid, CPU)
    /\ \E p \in Kids(ctx.Pid) \cap DOMAIN procs :
           \E x \in Hierarchies : procs[p][x.dir] = StartedIn(x)

====
